---- MODULE Spec2Model ----
(***************************************************************************)
(* Venus AI: the socket relay (socketHandler: authenticateSocket,          *)
(* handleSocketConnection and its chat_message handler), the Chat model's  *)
(* save semantics, the chat page's handleSendMessage, the REST route       *)
(* POST /:chatId/messages and the temporary in-memory server.              *)
(*                                                                         *)
(* Text is a sequence of one-character strings, so that trim, concatenation *)
(* and length are computed as JavaScript computes them.                    *)
(***************************************************************************)
EXTENDS Integers, Sequences, FiniteSets, TLC

(***************************************************************************)
(* Bounds of the model.                                                    *)
(***************************************************************************)
\* handler invocations of chat_message over a run
MaxExchanges == 2
\* Chat documents that can be constructed (ObjectIds handed out)
MaxChats == 2
\* storage operations that fail over a run
MaxFaults == 1

(***************************************************************************)
(* Literals of the source.                                                 *)
(***************************************************************************)
NEW_CHAT ==
  <<"N","e","w"," ","C","h","a","t">>

ELLIPSIS ==
  <<".",".",".">>

NO_TEXT_PLACEHOLDER ==
  <<"(","n","o"," ","t","e","x","t",","," ","a","t","t","a","c","h","m","e",
    "n","t","s"," ","o","n","l","y",")">>

ATTACHMENT_OPEN ==
  <<"\n","[","A","t","t","a","c","h","m","e","n","t",":"," ">>

ATTACHMENT_CLOSE ==
  <<"]">>

APOLOGY ==
  <<"I"," ","a","p","o","l","o","g","i","z","e",","," ","b","u","t"," ","I",
    "'","m"," ","c","u","r","r","e","n","t","l","y"," ","u","n","a","b","l",
    "e"," ","t","o"," ","p","r","o","c","e","s","s"," ","y","o","u","r"," ",
    "r","e","q","u","e","s","t","."," ","P","l","e","a","s","e"," ","t","r",
    "y"," ","a","g","a","i","n"," ","l","a","t","e","r",".">>

SYSTEM_PROMPT ==
  <<"Y","o","u"," ","a","r","e"," ","V","e","n","u","s"," ","A","I",","," ",
    "a"," ","h","e","l","p","f","u","l"," ","a","n","d"," ","i","n","t","e",
    "l","l","i","g","e","n","t"," ","a","s","s","i","s","t","a","n","t",".">>

\* messageSchema.content maxlength
ContentMaxLength == 10000
\* chatSchema.title maxlength
TitleMaxLength == 200
\* title rewrite: longest text kept whole, and the prefix kept when cut
TitleLimit == 50
TitleKeep == 47

(***************************************************************************)
(* JavaScript strings.                                                     *)
(***************************************************************************)
WhiteSpace == {" ", "\n", "\t"}

RECURSIVE TrimStart(_)
TrimStart(s) ==
  IF s = <<>> THEN <<>>
  ELSE IF Head(s) \in WhiteSpace THEN TrimStart(Tail(s)) ELSE s

RECURSIVE TrimEnd(_)
TrimEnd(s) ==
  IF s = <<>> THEN <<>>
  ELSE IF s[Len(s)] \in WhiteSpace THEN TrimEnd(SubSeq(s, 1, Len(s) - 1)) ELSE s

\* String.prototype.trim
Trim(s) == TrimEnd(TrimStart(s))

\* String.prototype.substring(0, n)
Substring0(s, n) == SubSeq(s, 1, IF n < Len(s) THEN n ELSE Len(s))

RECURSIVE Join(_, _)
\* Array.prototype.join: the separator goes between consecutive elements
Join(parts, sep) ==
  IF parts = <<>> THEN <<>>
  ELSE IF Len(parts) = 1 THEN parts[1]
  ELSE parts[1] \o sep \o Join(Tail(parts), sep)

(***************************************************************************)
(* JavaScript values of an inbound payload.                                *)
(***************************************************************************)
JUndef == [t |-> "undefined"]
JNull == [t |-> "null"]
JNum(n) == [t |-> "number", n |-> n]
JStr(s) == [t |-> "string", s |-> s]
JList(xs) == [t |-> "array", items |-> xs]
JAtt(filename, textExcerpt) ==
  [t |-> "object", filename |-> filename, textExcerpt |-> textExcerpt]

\* !v
Falsy(v) ==
  \/ v.t \in {"undefined", "null"}
  \/ v.t = "string" /\ v.s = <<>>
  \/ v.t = "number" /\ v.n = 0

(***************************************************************************)
(* The chat_message payload and the synchronous head of its handler.       *)
(***************************************************************************)
DEFAULT_CHAT_ID == "default"

Payload(chatId, message, attachments) ==
  [t |-> "object", chatId |-> chatId, message |-> message,
   attachments |-> attachments]

\* const { chatId, message, attachments = [] } = data
AttachmentsOf(data) ==
  IF data.attachments = JUndef THEN JList(<<>>) ELSE data.attachments

\* NoText without the trim: whitespace counts as text
NoTextUntrimmed(message) ==
  IF Falsy(message) THEN "yes"
  ELSE IF message.t = "string" THEN "no" ELSE "throw"

\* (!message || !message.trim()): "yes", "no", or "throw" when trim is not
\* a function of the value
NoText(message) ==
  IF Falsy(message) THEN "yes"
  ELSE IF message.t = "string"
       THEN (IF Trim(message.s) = <<>> THEN "yes" ELSE "no")
       ELSE "throw"

\* attachments.length === 0: "yes", "no", or "throw" when attachments is null
NoAttachments(atts) ==
  CASE atts.t = "null" -> "throw"
    [] atts.t = "array" -> (IF Len(atts.items) = 0 THEN "yes" ELSE "no")
    [] atts.t = "string" -> (IF Len(atts.s) = 0 THEN "yes" ELSE "no")
    [] OTHER -> "no"

\* Lines 205-213: "throw" (to the outer catch), "reject" (the error event of
\* line 209) or "pass".
Validate(data) ==
  IF data.t # "object" THEN "throw"
  ELSE LET text == NoText(data.message)
           atts == NoAttachments(AttachmentsOf(data))
       IN  CASE text = "throw" -> "throw"
             [] text = "no" -> "pass"
             [] atts = "throw" -> "throw"
             [] atts = "yes" -> "reject"
             [] OTHER -> "pass"

\* One element of attachmentNotes (lines 260-264)
AttachmentNote(a) ==
  IF Falsy(a.textExcerpt)
  THEN ATTACHMENT_OPEN \o a.filename.s \o ATTACHMENT_CLOSE
  ELSE ATTACHMENT_OPEN \o a.filename.s \o ATTACHMENT_CLOSE \o <<"\n">>
       \o a.textExcerpt.s

\* (attachments || []).map(...).join("\n"): ok = FALSE when map is not a
\* function of the value or an element has no properties to read
AttachmentNotes(atts) ==
  IF Falsy(atts) THEN [ok |-> TRUE, v |-> <<>>]
  ELSE IF atts.t # "array" THEN [ok |-> FALSE, v |-> <<>>]
  ELSE IF \E k \in 1..Len(atts.items) : atts.items[k].t # "object"
       THEN [ok |-> FALSE, v |-> <<>>]
       ELSE [ok |-> TRUE,
             v |-> Join([k \in 1..Len(atts.items) |->
                           AttachmentNote(atts.items[k])], <<"\n">>)]

\* FullContent without the outer trim
FullContentUntrimmed(message, notes) ==
  Trim(IF Falsy(message) THEN <<>> ELSE message.s) \o notes

\* `${(message || "").trim()}${attachmentNotes}`.trim()
FullContent(message, notes) ==
  Trim(Trim(IF Falsy(message) THEN <<>> ELSE message.s) \o notes)

\* content: fullContent || "(no text, attachments only)"
UserContent(message, notes) ==
  LET full == FullContent(message, notes)
  IN  IF full = <<>> THEN NO_TEXT_PLACEHOLDER ELSE full

(***************************************************************************)
(* The Chat model (models/Chat.js): a document in memory, schema           *)
(* validation, the pre-save hook, and what save() writes.                  *)
(***************************************************************************)
\* The users collection: u3 is a stored user whose isActive is false
Users == {"u1", "u2", "u3"}
Deactivated == {"u3"}
NoUser == "nobody"

\* ObjectIds in the order they are handed out
ObjectIds == <<"id1", "id2", "id3", "id4">>
NoId == "none"
\* a well-formed ObjectId no document has, and a string that is no ObjectId
UNKNOWN_ID == "id0"
MALFORMED_ID == "not-an-id"

\* A message as messageSchema casts it on push: metadata.tokens.total
\* defaults to 0, metadata.error is a String (true is cast to "true"), and
\* paths the schema does not declare (usage, errorType) are dropped.
\* by: the handler invocation that pushed it (history field).
Entry(role, content, error, by) ==
  [role |-> role, content |-> content, tokens |-> 0,
   error |-> IF error THEN "true" ELSE "null", by |-> by]

\* The plain object the handler builds and emits (userMessage, aiMessage,
\* errorMessage) before any cast.
RawMessage(role, content, error, errorType, usage) ==
  [role |-> role, content |-> content, error |-> error,
   errorType |-> errorType, usage |-> usage]

NoMessage == RawMessage("none", <<>>, FALSE, "none", 0)

\* A Chat document in memory. persisted: how many of its messages the store
\* already holds from this document; isNew, titleModified: mongoose's change
\* tracking. origin: the handler invocation that constructed the chat
\* (history field).
NoDoc ==
  [id |-> NoId, userId |-> NoUser, title |-> <<>>, messages |-> <<>>,
   messageCount |-> 0, totalTokens |-> 0, persisted |-> 0, isNew |-> FALSE,
   titleModified |-> FALSE, origin |-> 0]

\* new Chat({...}) of lines 221-237
NewChat(id, userId, i) ==
  [id |-> id, userId |-> userId, title |-> NEW_CHAT, messages |-> <<>>,
   messageCount |-> 0, totalTokens |-> 0, persisted |-> 0, isNew |-> TRUE,
   titleModified |-> TRUE, origin |-> i]

\* The document findOne hydrates from a stored record
Hydrate(id, rec) ==
  [id |-> id, userId |-> rec.userId, title |-> rec.title,
   messages |-> rec.messages, messageCount |-> rec.messageCount,
   totalTokens |-> rec.totalTokens, persisted |-> Len(rec.messages),
   isNew |-> FALSE, titleModified |-> FALSE, origin |-> rec.origin]

\* chat.messages.push(m)
Push(doc, m) == [doc EXCEPT !.messages = Append(@, m)]

RECURSIVE SumTokens(_)
SumTokens(msgs) ==
  IF msgs = <<>> THEN 0 ELSE Head(msgs).tokens + SumTokens(Tail(msgs))

\* this.isModified("messages")
MessagesModified(doc) == doc.isNew \/ Len(doc.messages) > doc.persisted

\* chatSchema.pre("save")
PreSave(doc) ==
  IF MessagesModified(doc)
  THEN [doc EXCEPT !.messageCount = Len(doc.messages),
                   !.totalTokens = SumTokens(doc.messages)]
  ELSE doc

\* Schema validation run by save(): title required and at most 200
\* characters, every message content required and at most 10000 characters,
\* role in the enum.
SchemaValid(doc) ==
  /\ doc.title # <<>>
  /\ Len(doc.title) <= TitleMaxLength
  /\ \A k \in 1..Len(doc.messages) :
        /\ doc.messages[k].content # <<>>
        /\ Len(doc.messages[k].content) <= ContentMaxLength
        /\ doc.messages[k].role \in {"user", "assistant", "system"}

\* The stored record of a document
Record(doc) ==
  [userId |-> doc.userId, title |-> doc.title, messages |-> doc.messages,
   messageCount |-> doc.messageCount, totalTokens |-> doc.totalTokens,
   origin |-> doc.origin]

\* What a successful save() leaves in the collection: a new document is
\* inserted whole; an existing one is updated with the pushed messages
\* ($push) and the modified paths ($set), whatever the record now holds.
Written(store, doc) ==
  LET d == PreSave(doc)
  IN  IF d.isNew \/ d.id \notin DOMAIN store
      THEN [k \in DOMAIN store \cup {d.id} |->
              IF k = d.id THEN Record(d) ELSE store[k]]
      ELSE [store EXCEPT
              ![d.id].messages =
                 @ \o SubSeq(d.messages, d.persisted + 1, Len(d.messages)),
              ![d.id].title = IF d.titleModified THEN d.title ELSE @,
              ![d.id].messageCount = d.messageCount,
              ![d.id].totalTokens = d.totalTokens]

\* The document in memory after a successful save()
Saved(doc) ==
  [PreSave(doc) EXCEPT !.persisted = Len(doc.messages), !.isNew = FALSE,
                       !.titleModified = FALSE]

\* FindOne by _id alone
FindOneById(store, chatId, userId) ==
  IF chatId \in DOMAIN store THEN chatId ELSE NoId

\* Chat.findOne({ _id: chatId, userId }): the id of the match, or NoId
FindOne(store, chatId, userId) ==
  IF chatId \in DOMAIN store /\ store[chatId].userId = userId
  THEN chatId ELSE NoId

\* MessagesForAI that prepends the system prompt while the title is unset
MessagesForAIByTitle(doc) ==
  LET pairs == [k \in 1..Len(doc.messages) |->
                  [role |-> doc.messages[k].role,
                   content |-> doc.messages[k].content]]
  IN  IF doc.title = NEW_CHAT
      THEN <<[role |-> "system", content |-> SYSTEM_PROMPT]>> \o pairs
      ELSE pairs

\* messagesForAI of lines 288-299
MessagesForAI(doc) ==
  LET pairs == [k \in 1..Len(doc.messages) |->
                  [role |-> doc.messages[k].role,
                   content |-> doc.messages[k].content]]
  IN  IF Len(doc.messages) = 1
      THEN <<[role |-> "system", content |-> SYSTEM_PROMPT]>> \o pairs
      ELSE pairs

\* The title of lines 359-365 (firstMessage is message.trim())
TitleFrom(firstMessage) ==
  IF Len(firstMessage) > TitleLimit
  THEN Substring0(firstMessage, TitleKeep) \o ELLIPSIS
  ELSE firstMessage

(***************************************************************************)
(* State.                                                                  *)
(***************************************************************************)
Conns == {"c1", "c2"}
NoConn == "none"

VARIABLES
  sockets,            \* per connection: st, user (socket.user), token presented
  listeners,          \* per connection: the events socket.on has a handler for
  rooms,              \* per connection: socket.rooms without the socket's own
  activeConnections,  \* the registry: user id -> socket id
  emitted,            \* per connection: what socket.emit was called with, in order
  db,                 \* the chats collection: id -> stored record
  nextId,             \* index in ObjectIds of the next id handed out
  ex,                 \* the chat_message handler invocations, in arrival order
  faults,             \* storage operations that have failed so far
  page                \* the chat page of the user on connection c1 (Chat.jsx)

vars == <<sockets, listeners, rooms, activeConnections, emitted, db, nextId,
          ex, faults, page>>

(***************************************************************************)
(* Events written to a socket.                                             *)
(***************************************************************************)
NoSummary == [id |-> NoId, title |-> <<>>, messageCount |-> 0, totalTokens |-> 0]

\* chat: { id, title, messageCount, totalTokens } of lines 387-392, 421-426
Summary(doc) ==
  [id |-> doc.id, title |-> doc.title, messageCount |-> doc.messageCount,
   totalTokens |-> doc.totalTokens]

\* ex: the handler invocation that emitted it (0: none), a history field
Ev(name, i) ==
  [ev |-> name, ex |-> i, text |-> "", typing |-> FALSE, chatId |-> NoId,
   message |-> NoMessage, chat |-> NoSummary, warning |-> FALSE]

ErrorEv(i, text) == [Ev("error", i) EXCEPT !.text = text]
TypingEv(i, chatId, typing) ==
  [Ev("ai_typing", i) EXCEPT !.chatId = chatId, !.typing = typing]
ReceivedEv(i, chatId, m) ==
  [Ev("message_received", i) EXCEPT !.chatId = chatId, !.message = m]
\* ResponseEv that echoes the chatId of the request
ResponseEvEchoingRequest(i, doc, m, warning) ==
  [Ev("ai_response", i) EXCEPT !.chatId = ex[i].data.chatId, !.message = m,
                               !.chat = Summary(doc), !.warning = warning]

ResponseEv(i, doc, m, warning) ==
  [Ev("ai_response", i) EXCEPT !.chatId = doc.id, !.message = m,
                               !.chat = Summary(doc), !.warning = warning]

\* Emit that keeps only the newest events of the connection
EmitReplacing(c, evs) == emitted' = [emitted EXCEPT ![c] = evs]

\* socket.emit: the events are appended to the connection's log
Emit(c, evs) == emitted' = [emitted EXCEPT ![c] = @ \o evs]

\* The events handler invocation i has emitted, in order
EventsOf(i) == SelectSeq(emitted[ex[i].conn], LAMBDA e : e.ex = i)

(***************************************************************************)
(* Connecting: authenticateSocket and handleSocketConnection.              *)
(***************************************************************************)
\* What a handshake can carry where a token goes. "" stands for no value
\* (undefined, or the empty string left of "Bearer " once replaced).
NO_TOKEN == ""
Tokens == {NO_TOKEN, "garbage", "jwt:u1", "jwt:u2", "jwt:u3", "jwt:ghost"}

\* jwt.verify(token, secret).userId; NoUser when verify throws
Decode(token) ==
  CASE token = "jwt:u1" -> "u1"
    [] token = "jwt:u2" -> "u2"
    [] token = "jwt:u3" -> "u3"
    [] token = "jwt:ghost" -> "ghost"
    [] OTHER -> NoUser

\* socket.handshake.auth.token ||
\* socket.handshake.headers.authorization?.replace("Bearer ", "")
PresentedToken(hs) == IF hs.auth # NO_TOKEN THEN hs.auth ELSE hs.bearer

\* Authenticate that falls back to a default user when no token is presented
AuthenticateOrDefault(hs) ==
  LET token == PresentedToken(hs)
  IN  IF token = NO_TOKEN THEN "u1"
      ELSE IF Decode(token) \notin Users THEN NoUser
      ELSE Decode(token)

\* authenticateSocket: the user attached to the socket, or NoUser when next
\* is called with an error
Authenticate(hs) ==
  LET token == PresentedToken(hs)
  IN  IF token = NO_TOKEN THEN NoUser
      ELSE IF Decode(token) = NoUser THEN NoUser
      ELSE IF Decode(token) \notin Users THEN NoUser
      ELSE Decode(token)

\* authenticateToken of the REST middleware on "Bearer <token>": the user
\* put on the request, or NoUser when the answer is 401 or 500
AuthenticateToken(token) ==
  IF token = NO_TOKEN THEN NoUser
  ELSE IF Decode(token) = NoUser THEN NoUser
  ELSE IF Decode(token) \notin Users THEN NoUser
  ELSE IF Decode(token) \in Deactivated THEN NoUser
  ELSE Decode(token)

HandlerEvents ==
  {"chat_message", "typing", "join_chat", "leave_chat", "ping", "disconnect",
   "error"}

UserRoom(u) == [kind |-> "user", id |-> u]
ChatRoom(chatId) == [kind |-> "chat", id |-> chatId]

\* socketAuthMiddleware on a new connection: socket.user is set and the
\* connection goes on, or the connection is refused
Handshake(c, hs) ==
  /\ sockets[c].st = "idle"
  /\ sockets' = [sockets EXCEPT ![c] =
        [st |-> IF Authenticate(hs) = NoUser THEN "refused" ELSE "accepted",
         user |-> Authenticate(hs), token |-> PresentedToken(hs)]]
  /\ UNCHANGED <<listeners, rooms, activeConnections, emitted, db, nextId,
                 ex, faults, page>>

\* handleSocketConnection is exported and guards against a socket without
\* user (lines 163-168): a caller that hands it a connection the middleware
\* has not seen, so that the socket arrives with no user attached
AcceptUnverified(c, hs) ==
  /\ sockets[c].st = "idle"
  /\ sockets' = [sockets EXCEPT ![c] =
        [st |-> "accepted", user |-> NoUser, token |-> PresentedToken(hs)]]
  /\ UNCHANGED <<listeners, rooms, activeConnections, emitted, db, nextId,
                 ex, faults, page>>

\* handleSocketConnection, lines 159-192 and the socket.on registrations
HandleSocketConnection(c) ==
  /\ sockets[c].st = "accepted"
  /\ IF sockets[c].user = NoUser
     THEN /\ Emit(c, <<ErrorEv(0, "Authentication required")>>)
          /\ sockets' = [sockets EXCEPT ![c].st = "closed"]
          /\ UNCHANGED <<listeners, rooms, activeConnections>>
     ELSE /\ activeConnections' =
               [activeConnections EXCEPT ![sockets[c].user] = c]
          /\ rooms' = [rooms EXCEPT ![c] = @ \cup {UserRoom(sockets[c].user)}]
          /\ Emit(c, <<Ev("connected", 0)>>)
          /\ listeners' = [listeners EXCEPT ![c] = HandlerEvents]
          /\ sockets' = [sockets EXCEPT ![c].st = "open"]
  /\ UNCHANGED <<db, nextId, ex, faults, page>>

(***************************************************************************)
(* The chat_message handler (lines 195-438). It suspends at chat.save() of *)
(* a new chat, at Chat.findOne, at axios.post and at the two later         *)
(* chat.save() calls; what runs between two suspensions is one step.       *)
(***************************************************************************)
\* pc: "create" (238), "find" (243), "upstream" (313), "save_reply" (367),
\* "save_apology" (416), "done".
\* upstream: how the upstream call ended ("none" before it has).
\* request: the messages sent upstream (<<>> before the call).
\* reply: the aiMessage built on the success path.
\* faulted: a storage operation of this invocation failed.
\* replySave: how chat.save() of line 367 ended ("none" before it has).
\* tokensBefore: statistics.totalTokens of the chat as resolved.
Exchange(c, data, pc, chat) ==
  [conn |-> c, user |-> sockets[c].user, data |-> data, pc |-> pc,
   chat |-> chat, request |-> <<>>, upstream |-> "none",
   reply |-> NoMessage, faulted |-> FALSE, replySave |-> "none",
   tokensBefore |-> 0]

\* The outer catch (lines 430-437)
OuterCatch(i, e) ==
  /\ ex' = [e EXCEPT ![i].pc = "done"]
  /\ Emit(e[i].conn, <<ErrorEv(i, "Failed to process message")>>)

\* Lines 195-256 up to the first suspension. What the sender does in the
\* same step is the sender's: page is left to the caller.
ChatMessage(c, data) ==
  /\ "chat_message" \in listeners[c]
  /\ Len(ex) < MaxExchanges
  /\ LET i == Len(ex) + 1
         verdict == Validate(data)
     IN  CASE verdict = "throw" ->
                /\ OuterCatch(i, Append(ex, Exchange(c, data, "done", NoDoc)))
                /\ UNCHANGED nextId
           [] verdict = "reject" ->
                /\ ex' = Append(ex, Exchange(c, data, "done", NoDoc))
                /\ Emit(c, <<ErrorEv(i, "Message or attachments are required")>>)
                /\ UNCHANGED nextId
           [] OTHER ->
                IF data.chatId = DEFAULT_CHAT_ID
                THEN /\ nextId <= MaxChats
                     /\ ex' = Append(ex, Exchange(c, data, "create",
                                 NewChat(ObjectIds[nextId], sockets[c].user, i)))
                     /\ nextId' = nextId + 1
                     /\ UNCHANGED emitted
                ELSE /\ ex' = Append(ex, Exchange(c, data, "find", NoDoc))
                     /\ UNCHANGED <<nextId, emitted>>
  /\ UNCHANGED <<sockets, listeners, rooms, activeConnections, db, faults>>

\* AcceptedEvents with the two emits in the other order
AcceptedEventsTypingFirst(i, chatId, userMessage) ==
  <<TypingEv(i, chatId, TRUE), ReceivedEv(i, chatId, userMessage)>>

\* Lines 278-285: message_received, then ai_typing on
AcceptedEvents(i, chatId, userMessage) ==
  <<ReceivedEv(i, chatId, userMessage), TypingEv(i, chatId, TRUE)>>

\* Lines 258-299, run once the chat is resolved: the user message is
\* pushed, message_received and ai_typing are emitted, the request is built
\* and the handler suspends at axios.post.
Resolved(i, e, doc) ==
  LET data == e[i].data
      notes == AttachmentNotes(AttachmentsOf(data))
      content == UserContent(data.message, notes.v)
      userMessage == RawMessage("user", content, FALSE, "none", 0)
      chat == Push(doc, Entry("user", content, FALSE, i))
  IN  IF ~notes.ok
      THEN OuterCatch(i, [e EXCEPT ![i].chat = doc])
      ELSE /\ ex' = [e EXCEPT ![i].chat = chat,
                              ![i].request = MessagesForAI(chat),
                              ![i].tokensBefore = doc.totalTokens,
                              ![i].pc = "upstream"]
           /\ Emit(e[i].conn, AcceptedEvents(i, data.chatId, userMessage))

\* await chat.save() of a new chat (line 238) returns or throws
CreateChat(i, ok) ==
  /\ i \in 1..Len(ex)
  /\ ex[i].pc = "create"
  /\ IF ok
     THEN /\ db' = Written(db, ex[i].chat)
          /\ Resolved(i, ex, Saved(ex[i].chat))
          /\ UNCHANGED faults
     ELSE /\ faults < MaxFaults
          /\ faults' = faults + 1
          /\ OuterCatch(i, [ex EXCEPT ![i].faulted = TRUE])
          /\ UNCHANGED db
  /\ UNCHANGED <<sockets, listeners, rooms, activeConnections, nextId, page>>

\* await Chat.findOne (lines 242-255) returns or throws
FindChat(i, ok) ==
  /\ i \in 1..Len(ex)
  /\ ex[i].pc = "find"
  /\ LET chatId == ex[i].data.chatId
         found == FindOne(db, chatId, ex[i].user)
     IN  IF ~ok \/ chatId = MALFORMED_ID
         THEN /\ chatId # MALFORMED_ID => faults < MaxFaults
              /\ faults' = IF chatId = MALFORMED_ID THEN faults ELSE faults + 1
              /\ ex' = [ex EXCEPT ![i].pc = "done",
                                  ![i].faulted = (chatId # MALFORMED_ID)]
              /\ Emit(ex[i].conn, <<ErrorEv(i, "Invalid chat ID")>>)
         ELSE /\ UNCHANGED faults
              /\ IF found = NoId
                 THEN /\ ex' = [ex EXCEPT ![i].pc = "done"]
                      /\ Emit(ex[i].conn, <<ErrorEv(i, "Chat not found")>>)
                 ELSE Resolved(i, ex, Hydrate(found, db[found]))
  /\ UNCHANGED <<sockets, listeners, rooms, activeConnections, db, nextId,
                 page>>

(***************************************************************************)
(* The upstream call settles.                                              *)
(***************************************************************************)
\* ok: a 2xx answer with choices[0].message.content and usage.total_tokens;
\* malformed: a 2xx answer without choices; rejected: a non-2xx answer or a
\* transport error; timeout: no answer within 120000 ms.
UpstreamResults ==
  {[kind |-> "ok", content |-> <<"o", "k">>, total_tokens |-> 3],
   [kind |-> "ok", content |-> <<>>, total_tokens |-> 0],
   [kind |-> "malformed", content |-> <<>>, total_tokens |-> 0],
   [kind |-> "rejected", content |-> <<>>, total_tokens |-> 0],
   [kind |-> "timeout", content |-> <<>>, total_tokens |-> 0]}

\* catch (aiError), lines 394-416 up to chat.save()
CatchAiError(i, e, doc) ==
  LET chat == Push(doc, Entry("assistant", APOLOGY, TRUE, i))
  IN  /\ ex' = [e EXCEPT ![i].chat =
                           [chat EXCEPT !.messageCount = Len(chat.messages)],
                         ![i].pc = "save_apology"]

\* Lines 329-367: ai_typing off, the reply is pushed, the statistics and
\* the title are updated; any throw on the way lands in catch (aiError)
UpstreamSettles(i, r) ==
  /\ i \in 1..Len(ex)
  /\ ex[i].pc = "upstream"
  /\ LET c == ex[i].conn
         chatId == ex[i].data.chatId
         message == ex[i].data.message
         e == [ex EXCEPT ![i].upstream = r.kind]
         aiMessage == RawMessage("assistant", r.content, FALSE, "none",
                                 r.total_tokens)
         pushed == Push(ex[i].chat,
                        Entry("assistant", r.content, FALSE, i))
         counted == [pushed EXCEPT
                       !.messageCount = Len(pushed.messages),
                       !.totalTokens = @ + r.total_tokens]
         retitle == Len(counted.messages) = 2 /\ counted.title = NEW_CHAT
         titled == [counted EXCEPT !.title = TitleFrom(Trim(message.s)),
                                   !.titleModified = TRUE]
     IN  CASE r.kind \in {"rejected", "timeout"} ->
                /\ Emit(c, <<TypingEv(i, chatId, FALSE)>>)
                /\ CatchAiError(i, e, ex[i].chat)
           [] r.kind = "malformed" ->
                /\ Emit(c, <<TypingEv(i, chatId, FALSE),
                             TypingEv(i, chatId, FALSE)>>)
                /\ CatchAiError(i, e, ex[i].chat)
           [] r.kind = "ok" /\ retitle /\ message.t # "string" ->
                /\ Emit(c, <<TypingEv(i, chatId, FALSE),
                             TypingEv(i, chatId, FALSE)>>)
                /\ CatchAiError(i, e, counted)
           [] OTHER ->
                /\ Emit(c, <<TypingEv(i, chatId, FALSE)>>)
                /\ ex' = [e EXCEPT ![i].chat =
                                     IF retitle THEN titled ELSE counted,
                                   ![i].reply = aiMessage,
                                   ![i].pc = "save_reply"]
  /\ UNCHANGED <<sockets, listeners, rooms, activeConnections, db, nextId,
                 faults, page>>

\* await chat.save() of line 367 returns or throws; on return the
\* ai_response of lines 383-393 is emitted, on a throw catch (aiError) runs
SaveReply(i, ok) ==
  /\ i \in 1..Len(ex)
  /\ ex[i].pc = "save_reply"
  /\ IF ok /\ SchemaValid(ex[i].chat)
     THEN /\ db' = Written(db, ex[i].chat)
          /\ ex' = [ex EXCEPT ![i].chat = Saved(ex[i].chat), ![i].pc = "done",
                              ![i].replySave = "ok"]
          /\ Emit(ex[i].conn,
                  <<ResponseEv(i, Saved(ex[i].chat), ex[i].reply, FALSE)>>)
          /\ UNCHANGED faults
     ELSE /\ SchemaValid(ex[i].chat) => faults < MaxFaults
          /\ faults' = IF SchemaValid(ex[i].chat) THEN faults + 1 ELSE faults
          /\ Emit(ex[i].conn, <<TypingEv(i, ex[i].data.chatId, FALSE)>>)
          /\ CatchAiError(i, [ex EXCEPT ![i].faulted = SchemaValid(ex[i].chat),
                                         ![i].replySave = "failed"],
                          ex[i].chat)
          /\ UNCHANGED db
  /\ UNCHANGED <<sockets, listeners, rooms, activeConnections, nextId, page>>

\* await chat.save() of line 416 returns or throws; on return the
\* ai_response of lines 418-428 is emitted, a throw lands in the outer catch
SaveApology(i, ok) ==
  /\ i \in 1..Len(ex)
  /\ ex[i].pc = "save_apology"
  /\ LET errorMessage ==
           RawMessage("assistant", APOLOGY, TRUE, "ai_service_error", 0)
     IN  IF ok /\ SchemaValid(ex[i].chat)
         THEN /\ db' = Written(db, ex[i].chat)
              /\ ex' = [ex EXCEPT ![i].chat = Saved(ex[i].chat),
                                  ![i].pc = "done"]
              /\ Emit(ex[i].conn,
                      <<ResponseEv(i, Saved(ex[i].chat), errorMessage, TRUE)>>)
              /\ UNCHANGED faults
         ELSE /\ SchemaValid(ex[i].chat) => faults < MaxFaults
              /\ faults' = IF SchemaValid(ex[i].chat) THEN faults + 1
                           ELSE faults
              /\ OuterCatch(i, [ex EXCEPT
                                  ![i].faulted = @ \/ SchemaValid(ex[i].chat)])
              /\ UNCHANGED db
  /\ UNCHANGED <<sockets, listeners, rooms, activeConnections, nextId, page>>

(***************************************************************************)
(* The other handlers of handleSocketConnection (lines 440-490).           *)
(***************************************************************************)
\* pong and user_typing events a connection's handlers emit over a run
MaxSignals == 1

Count(log, name) == Len(SelectSeq(log, LAMBDA e : e.ev = name))

\* socket.on("join_chat")
JoinChat(c, chatId) ==
  /\ sockets[c].st = "open"
  /\ "join_chat" \in listeners[c]
  /\ rooms' = [rooms EXCEPT ![c] = @ \cup {ChatRoom(chatId)}]
  /\ UNCHANGED <<sockets, listeners, activeConnections, emitted, db, nextId,
                 ex, faults, page>>

\* socket.on("leave_chat")
LeaveChat(c, chatId) ==
  /\ sockets[c].st = "open"
  /\ "leave_chat" \in listeners[c]
  /\ rooms' = [rooms EXCEPT ![c] = @ \ {ChatRoom(chatId)}]
  /\ UNCHANGED <<sockets, listeners, activeConnections, emitted, db, nextId,
                 ex, faults, page>>

\* socket.on("typing"): user_typing goes to the other sockets of the room
Typing(c, chatId, typing) ==
  /\ sockets[c].st = "open"
  /\ "typing" \in listeners[c]
  /\ \A d \in Conns : Count(emitted[d], "user_typing") < MaxSignals
  /\ emitted' =
       [d \in Conns |->
          IF d # c /\ ChatRoom(chatId) \in rooms[d]
          THEN Append(emitted[d],
                      [Ev("user_typing", 0) EXCEPT !.text = sockets[c].user,
                                                   !.typing = typing])
          ELSE emitted[d]]
  /\ UNCHANGED <<sockets, listeners, rooms, activeConnections, db, nextId, ex,
                 faults, page>>

\* socket.on("ping")
Ping(c) ==
  /\ sockets[c].st = "open"
  /\ "ping" \in listeners[c]
  /\ Count(emitted[c], "pong") < MaxSignals
  /\ Emit(c, <<Ev("pong", 0)>>)
  /\ UNCHANGED <<sockets, listeners, rooms, activeConnections, db, nextId, ex,
                 faults, page>>

\* The room every socket is in under its own id
SocketRoom(c) == [kind |-> "socket", id |-> c]

\* The rooms of a socket whose disconnect handler leaves none
RoomsKept(c) == rooms[c]

\* socket.rooms.forEach(room => room !== socket.id && socket.leave(room)):
\* the rooms the socket is still in afterwards
LeaveAllRooms(c) == {room \in rooms[c] : room = SocketRoom(c)}

\* socket.on("disconnect"): the user's registry entry is deleted and every
\* room but the socket's own is left
Disconnect(c) ==
  /\ sockets[c].st = "open"
  /\ "disconnect" \in listeners[c]
  /\ activeConnections' = [activeConnections EXCEPT ![sockets[c].user] = NoConn]
  /\ rooms' = [rooms EXCEPT ![c] = LeaveAllRooms(c)]
  /\ sockets' = [sockets EXCEPT ![c].st = "closed"]
  /\ UNCHANGED <<listeners, emitted, db, nextId, ex, faults, page>>

(***************************************************************************)
(* Inputs.                                                                 *)
(***************************************************************************)
Handshakes == [auth : Tokens, bearer : Tokens]

Hi == <<"h", "i">>
Blank == <<" ">>
ReportPdf == JAtt(JStr(<<"r", ".", "p", "d", "f">>), JStr(<<"Q", "3">>))
PhotoPng == JAtt(JStr(<<"p", ".", "p", "n", "g">>), JNull)

\* A plain first message of a new conversation
PlainText == Payload(DEFAULT_CHAT_ID, JStr(Hi), JUndef)

\* A message to a chat the store does not hold
StaleLink == Payload(ObjectIds[1], JStr(Hi), JUndef)

\* Payloads line 207 rejects: blank or empty text, and no attachments
RejectedPayloads ==
  {Payload(DEFAULT_CHAT_ID, JStr(Blank), JList(<<>>)),
   Payload(DEFAULT_CHAT_ID, JStr(<<>>), JUndef)}

\* Payloads lines 205-207 throw on: no payload, a text that is no string,
\* blank text with attachments null
ThrowingPayloads ==
  {JUndef,
   Payload(DEFAULT_CHAT_ID, JNum(5), JUndef),
   Payload(DEFAULT_CHAT_ID, JStr(Blank), JNull)}

\* Payloads that pass line 207: text, attachments only (empty text, absent
\* text), and text with attachments that is no list
PassingBodies ==
  {[message |-> JStr(Hi), attachments |-> JUndef],
   [message |-> JStr(<<>>), attachments |-> JList(<<PhotoPng>>)],
   [message |-> JUndef, attachments |-> JList(<<ReportPdf>>)],
   [message |-> JStr(Hi), attachments |-> JStr(<<"x">>)]}

ChatIdInputs ==
  {DEFAULT_CHAT_ID, MALFORMED_ID} \cup {ObjectIds[k] : k \in 1..MaxChats}

\* Texts around the title limit: 50 characters, and 51 characters inside
\* white space
Filler(n) == [k \in 1..n |-> "a"]
Text50 == Filler(TitleLimit)
Text51 == <<" ">> \o Filler(TitleLimit + 1) \o <<" ">>

\* First and later messages whose text decides a title: short, at the
\* limit, beyond it, short with two attachments, and empty with one
TitlePayloads ==
  {Payload(id, b.message, b.attachments) :
     id \in {DEFAULT_CHAT_ID, ObjectIds[1]},
     b \in {[message |-> JStr(Hi), attachments |-> JUndef],
            [message |-> JStr(Text50), attachments |-> JUndef],
            [message |-> JStr(Text51), attachments |-> JList(<<>>)],
            [message |-> JStr(Hi),
             attachments |-> JList(<<ReportPdf, PhotoPng>>)],
            [message |-> JStr(<<>>), attachments |-> JList(<<ReportPdf>>)]}}

\* What a client can send as chat_message
Payloads ==
  RejectedPayloads \cup ThrowingPayloads \cup
  {Payload(id, b.message, b.attachments) : id \in ChatIdInputs,
                                           b \in PassingBodies}

(***************************************************************************)
(* The chat page (frontend/src/pages/Chat.jsx) of the user on connection   *)
(* c1, connected through its socket: handleSendMessage, the listeners and  *)
(* the timer it registers per send, and loadChat.                          *)
(***************************************************************************)
PageConn == "c1"

\* A message of the page's list. kind: "welcome", "stored" (loaded from the
\* server), "user", "reply" (handleAIResponse), "error" (handleError),
\* "timeout" (the timer). cause: the exchange whose event or timer made the
\* page append it. via: the send whose closure appended it.
PageMessage(kind, cause, via) == [kind |-> kind, cause |-> cause, via |-> via]

Welcome == <<PageMessage("welcome", 0, 0)>>

\* The events handleSendMessage registers a listener for (lines 308-312)
PageEvents == {"ai_response", "ai_typing", "error"}

\* The closure of one handleSendMessage call: the exchange it sent (the
\* page's sends arrive in order, so the k-th send is the k-th exchange), the
\* route parameter it captured, responseReceived, its timer ("armed",
\* "fired", "cleared") and the events its listeners are still registered on
Send(k, chatId) ==
  [ex |-> k, chatId |-> chatId, responseReceived |-> FALSE,
   timer |-> "armed", on |-> PageEvents]

\* The page once mounted on /chat: loadChat has shown the welcome message
PageInit ==
  [messages |-> Welcome, isLoading |-> FALSE, isTyping |-> FALSE,
   currentChat |-> NoId, chatId |-> NoId, chatLoading |-> FALSE,
   sends |-> <<>>, wire |-> <<>>, delivered |-> 0]

\* currentChat?._id || chatId || "default" (line 209)
ActiveChatId(p) ==
  IF p.currentChat # NoId THEN p.currentChat
  ELSE IF p.chatId # NoId THEN p.chatId
  ELSE DEFAULT_CHAT_ID

\* handleSendMessage, lines 178-339 on the socket branch: the user message
\* is shown, chat_message goes on the wire, the three listeners are
\* registered and the timer is armed. The form is disabled while a chat
\* loads (lines 708, 735-738).
HandleSendMessage(inputMessage, attachments) ==
  /\ ~((Trim(inputMessage) = <<>> /\ attachments = <<>>) \/ page.isLoading)
  /\ ~page.chatLoading
  /\ Len(page.sends) < MaxExchanges
  /\ LET k == Len(page.sends) + 1
     IN  page' = [page EXCEPT
           !.messages = Append(@, PageMessage("user", k, k)),
           !.isLoading = TRUE,
           !.isTyping = TRUE,
           !.wire = Append(@, Payload(ActiveChatId(page),
                                      JStr(Trim(inputMessage)),
                                      JList(attachments))),
           !.sends = Append(@, Send(k, page.chatId))]
  /\ UNCHANGED <<sockets, listeners, rooms, activeConnections, emitted, db,
                 nextId, ex, faults>>

\* The server receives the page's next chat_message
Arrives ==
  /\ page.wire # <<>>
  /\ ChatMessage(PageConn, Head(page.wire))
  /\ page' = [page EXCEPT !.wire = Tail(@)]

\* clearTimeout(timeoutId)
ClearTimeout(timer) == IF timer = "armed" THEN "cleared" ELSE timer

\* handleAIResponse of send k (lines 218-269). navigate() to another route
\* re-runs loadChat, which starts with setChatLoading(true) and
\* setCurrentChat(null) (lines 69-70).
HandleAIResponse(p, k, e) ==
  LET navigates == p.sends[k].chatId \in {NoId, DEFAULT_CHAT_ID}
                   /\ e.chat.id # NoId
      reroute == navigates /\ e.chat.id # p.chatId
  IN  IF e.message.role = "assistant" /\ ~p.sends[k].responseReceived
      THEN [p EXCEPT
             !.sends[k] = [@ EXCEPT !.responseReceived = TRUE,
                                    !.on = @ \ {"ai_response"},
                                    !.timer = ClearTimeout(@)],
             !.messages = Append(@, PageMessage("reply", e.ex, k)),
             !.isLoading = FALSE,
             !.isTyping = FALSE,
             !.currentChat = IF reroute THEN NoId ELSE e.chat.id,
             !.chatId = IF navigates THEN e.chat.id ELSE @,
             !.chatLoading = @ \/ reroute]
      ELSE p

\* handleAITyping (lines 272-275)
HandleAITyping(p, k, e) == [p EXCEPT !.isTyping = e.typing]

\* handleError of send k (lines 278-305)
HandleError(p, k, e) ==
  [p EXCEPT
     !.sends[k] = [@ EXCEPT !.responseReceived = TRUE,
                            !.on = {},
                            !.timer = ClearTimeout(@)],
     !.messages = Append(@, PageMessage("error", e.ex, k)),
     !.isLoading = FALSE,
     !.isTyping = FALSE]

\* The sends whose listener for the event is registered, in the order of
\* registration
Registered(p, name) ==
  SelectSeq([k \in 1..Len(p.sends) |-> k], LAMBDA k : name \in p.sends[k].on)

\* The socket calls the listeners registered when the event arrives
RECURSIVE Dispatch(_, _, _)
Dispatch(p, ks, e) ==
  IF ks = <<>> THEN p
  ELSE LET k == Head(ks)
           q == CASE e.ev = "ai_response" -> HandleAIResponse(p, k, e)
                  [] e.ev = "ai_typing" -> HandleAITyping(p, k, e)
                  [] OTHER -> HandleError(p, k, e)
       IN  Dispatch(q, Tail(ks), e)

\* The next event the server emitted on the page's socket reaches the page
Deliver ==
  /\ page.delivered < Len(emitted[PageConn])
  /\ LET e == emitted[PageConn][page.delivered + 1]
         p == [page EXCEPT !.delivered = @ + 1]
     IN  page' = IF e.ev \in PageEvents
                 THEN Dispatch(p, Registered(p, e.ev), e)
                 ELSE p
  /\ UNCHANGED <<sockets, listeners, rooms, activeConnections, emitted, db,
                 nextId, ex, faults>>

\* The 60000 ms timer of send k fires (lines 315-339)
TimerFires(k) ==
  /\ k \in 1..Len(page.sends)
  /\ page.sends[k].timer = "armed"
  /\ page' =
       IF ~page.sends[k].responseReceived
       THEN [page EXCEPT
               !.sends[k] = [@ EXCEPT !.responseReceived = TRUE,
                                      !.on = {},
                                      !.timer = "fired"],
               !.messages = Append(@, PageMessage("timeout",
                                                  page.sends[k].ex, k)),
               !.isLoading = FALSE,
               !.isTyping = FALSE]
       ELSE [page EXCEPT !.sends[k].timer = "fired"]
  /\ UNCHANGED <<sockets, listeners, rooms, activeConnections, emitted, db,
                 nextId, ex, faults>>

\* loadChat's GET /chat/:chatId returns (lines 72-123): the stored chat
\* replaces the list, or the welcome message does when the request fails
ChatLoaded(ok) ==
  /\ page.chatLoading
  /\ LET found == FindOne(db, page.chatId, sockets[PageConn].user)
     IN  page' =
           IF ok /\ found # NoId
           THEN [page EXCEPT
                   !.currentChat = found,
                   !.messages =
                      [j \in 1..Len(db[found].messages) |->
                         PageMessage("stored", db[found].messages[j].by, 0)],
                   !.chatLoading = FALSE]
           ELSE [page EXCEPT !.currentChat = NoId,
                             !.messages = Welcome,
                             !.chatLoading = FALSE]
  /\ UNCHANGED <<sockets, listeners, rooms, activeConnections, emitted, db,
                 nextId, ex, faults>>

(***************************************************************************)
(* The accessors of the registry (lines 510-518).                          *)
(***************************************************************************)
\* activeConnections.size
getActiveConnectionsCount ==
  Cardinality({u \in Users : activeConnections[u] # NoConn})

\* activeConnections.get(userId.toString())
getUserConnection(userId) == activeConnections[userId]

(***************************************************************************)
(* The socket server from its start: connections arrive, authenticate and  *)
(* use every handler; the first chat message is a plain one.              *)
(***************************************************************************)
Init ==
  /\ sockets = [c \in Conns |-> [st |-> "idle", user |-> NoUser,
                                 token |-> NO_TOKEN]]
  /\ listeners = [c \in Conns |-> {}]
  /\ rooms = [c \in Conns |-> {}]
  /\ activeConnections = [u \in Users |-> NoConn]
  /\ emitted = [c \in Conns |-> <<>>]
  /\ db = <<>>
  /\ nextId = 1
  /\ ex = <<>>
  /\ faults = 0
  /\ page = PageInit

Settle ==
  \/ \E i \in 1..MaxExchanges, ok \in BOOLEAN : CreateChat(i, ok)
  \/ \E i \in 1..MaxExchanges, ok \in BOOLEAN : FindChat(i, ok)
  \/ \E i \in 1..MaxExchanges, r \in UpstreamResults : UpstreamSettles(i, r)
  \/ \E i \in 1..MaxExchanges, ok \in BOOLEAN : SaveReply(i, ok)
  \/ \E i \in 1..MaxExchanges, ok \in BOOLEAN : SaveApology(i, ok)

Next ==
  \/ \E c \in Conns, hs \in Handshakes : Handshake(c, hs)
  \/ \E c \in Conns, token \in {NO_TOKEN, "jwt:u1"} :
        AcceptUnverified(c, [auth |-> token, bearer |-> NO_TOKEN])
  \/ \E c \in Conns : HandleSocketConnection(c)
  \/ \E c \in Conns : JoinChat(c, ObjectIds[1])
  \/ \E c \in Conns : LeaveChat(c, ObjectIds[1])
  \/ \E c \in Conns, typing \in BOOLEAN : Typing(c, ObjectIds[1], typing)
  \/ \E c \in Conns : Ping(c)
  \/ \E c \in Conns : Disconnect(c)
  \/ \E c \in Conns, data \in {PlainText, StaleLink} :
        ex = <<>> /\ ChatMessage(c, data) /\ UNCHANGED page
  \/ Settle

Spec == Init /\ [][Next]_vars

(***************************************************************************)
(* The relay: two authenticated sockets, c1 of u1 and c2 of u2, as         *)
(* handleSocketConnection leaves them, and clients that send any payload.  *)
(***************************************************************************)
UserOf(c) == IF c = "c1" THEN "u1" ELSE "u2"

InitRelay ==
  /\ sockets = [c \in Conns |-> [st |-> "open", user |-> UserOf(c),
                                 token |-> "jwt:" \o UserOf(c)]]
  /\ listeners = [c \in Conns |-> HandlerEvents]
  /\ rooms = [c \in Conns |-> {UserRoom(UserOf(c))}]
  /\ activeConnections =
       [u \in Users |-> IF \E c \in Conns : UserOf(c) = u
                        THEN CHOOSE c \in Conns : UserOf(c) = u
                        ELSE NoConn]
  /\ emitted = [c \in Conns |-> <<Ev("connected", 0)>>]
  /\ db = <<>>
  /\ nextId = 1
  /\ ex = <<>>
  /\ faults = 0
  /\ page = PageInit

NextRelay ==
  \/ \E c \in Conns, data \in Payloads :
        ChatMessage(c, data) /\ UNCHANGED page
  \/ \E i \in 1..MaxExchanges, ok \in BOOLEAN : CreateChat(i, ok)
  \/ \E i \in 1..MaxExchanges, ok \in BOOLEAN : FindChat(i, ok)
  \/ \E i \in 1..MaxExchanges, r \in UpstreamResults : UpstreamSettles(i, r)
  \/ \E i \in 1..MaxExchanges, ok \in BOOLEAN : SaveReply(i, ok)
  \/ \E i \in 1..MaxExchanges, ok \in BOOLEAN : SaveApology(i, ok)

SpecRelay == InitRelay /\ [][NextRelay]_vars

(***************************************************************************)
(* The chat page on connection c1 against the relay.                       *)
(***************************************************************************)
NextPage ==
  \/ \E inputMessage \in {Hi, Blank}, attachments \in {<<>>, <<PhotoPng>>} :
        HandleSendMessage(inputMessage, attachments)
  \/ Arrives
  \/ Deliver
  \/ \E k \in 1..MaxExchanges : TimerFires(k)
  \/ \E ok \in BOOLEAN : ChatLoaded(ok)
  \/ \E i \in 1..MaxExchanges, ok \in BOOLEAN : CreateChat(i, ok)
  \/ \E i \in 1..MaxExchanges, ok \in BOOLEAN : FindChat(i, ok)
  \/ \E i \in 1..MaxExchanges, r \in UpstreamResults : UpstreamSettles(i, r)
  \/ \E i \in 1..MaxExchanges, ok \in BOOLEAN : SaveReply(i, ok)
  \/ \E i \in 1..MaxExchanges, ok \in BOOLEAN : SaveApology(i, ok)

SpecPage == InitRelay /\ [][NextPage]_vars

(***************************************************************************)
(* The relay under messages whose text decides a title.                    *)
(***************************************************************************)
NextTitles ==
  \/ \E c \in Conns, data \in TitlePayloads :
        ChatMessage(c, data) /\ UNCHANGED page
  \/ \E i \in 1..MaxExchanges, ok \in BOOLEAN : CreateChat(i, ok)
  \/ \E i \in 1..MaxExchanges, ok \in BOOLEAN : FindChat(i, ok)
  \/ \E i \in 1..MaxExchanges, r \in UpstreamResults : UpstreamSettles(i, r)
  \/ \E i \in 1..MaxExchanges, ok \in BOOLEAN : SaveReply(i, ok)
  \/ \E i \in 1..MaxExchanges, ok \in BOOLEAN : SaveApology(i, ok)

SpecTitles == InitRelay /\ [][NextTitles]_vars

(***************************************************************************)
(* The temporary server (server-temp.js): chats live in an array in        *)
(* memory, here db; a request handler works on the stored object itself.   *)
(* ex holds the POST /api/chat/:chatId/messages requests in arrival order. *)
(***************************************************************************)
\* req.user.id of the temporary authenticateToken
DEMO_USER == "demo-user"

\* A request to POST /api/chat/:chatId/messages. status: the HTTP status
\* of its response (0 before it has one)
TempRequest(chatId, message, pc, status) ==
  [conn |-> NoConn, user |-> DEMO_USER,
   data |-> Payload(chatId, message, JUndef), pc |-> pc, status |-> status,
   upstream |-> "none"]

\* POST /api/chat: a chat with no message and messageCount 0 is stored
PostChat(title) ==
  /\ nextId <= MaxChats
  /\ db' = [k \in DOMAIN db \cup {ObjectIds[nextId]} |->
              IF k = ObjectIds[nextId]
              THEN [userId |-> DEMO_USER,
                    title |-> IF Falsy(title) THEN NEW_CHAT ELSE title.s,
                    messages |-> <<>>, messageCount |-> 0, totalTokens |-> 0,
                    origin |-> 0]
              ELSE db[k]]
  /\ nextId' = nextId + 1
  /\ UNCHANGED <<sockets, listeners, rooms, activeConnections, emitted, ex,
                 faults, page>>

\* POST /api/chat/:chatId/messages up to await fetch (lines 107-138)
PostMessages(chatId, message) ==
  /\ Len(ex) < MaxExchanges
  /\ LET i == Len(ex) + 1
     IN  IF Falsy(message) \/ (message.t = "string" /\ Trim(message.s) = <<>>)
         THEN /\ ex' = Append(ex, TempRequest(chatId, message, "done", 400))
              /\ UNCHANGED db
         ELSE IF message.t # "string"
         THEN /\ ex' = Append(ex, TempRequest(chatId, message, "done", 500))
              /\ UNCHANGED db
         ELSE IF FindOne(db, chatId, DEMO_USER) = NoId
         THEN /\ ex' = Append(ex, TempRequest(chatId, message, "done", 404))
              /\ UNCHANGED db
         ELSE /\ ex' = Append(ex, TempRequest(chatId, message, "fetch", 0))
              /\ db' = [db EXCEPT ![chatId].messages =
                          Append(@, Entry("user", Trim(message.s), FALSE, i))]
  /\ UNCHANGED <<sockets, listeners, rooms, activeConnections, emitted,
                 nextId, faults, page>>

\* The chat after lines 152-168: the reply pushed, the statistics and the
\* title updated
Answered(chat, i, r) ==
  LET pushed == Append(chat.messages,
                       Entry("assistant", r.content, FALSE, i))
      message == ex[i].data.message.s
  IN  [chat EXCEPT !.messages = pushed,
                   !.messageCount = Len(pushed),
                   !.totalTokens = @ + r.total_tokens,
                   !.title = IF Len(pushed) = 2 /\ chat.title = NEW_CHAT
                             THEN TitleFrom(message) ELSE @]

\* await fetch returns or throws (lines 139-188): an ok answer with choices
\* is stored and answered 200, anything else is answered 500. A chat
\* deleted meanwhile is no longer in the array.
FetchSettles(i, r) ==
  /\ i \in 1..Len(ex)
  /\ ex[i].pc = "fetch"
  /\ LET chatId == ex[i].data.chatId
     IN  IF r.kind = "ok"
         THEN /\ ex' = [ex EXCEPT ![i].pc = "done", ![i].status = 200,
                                  ![i].upstream = r.kind]
              /\ db' = IF chatId \in DOMAIN db
                       THEN [db EXCEPT ![chatId] = Answered(@, i, r)]
                       ELSE db
         ELSE /\ ex' = [ex EXCEPT ![i].pc = "done", ![i].status = 500,
                                  ![i].upstream = r.kind]
              /\ UNCHANGED db
  /\ UNCHANGED <<sockets, listeners, rooms, activeConnections, emitted,
                 nextId, faults, page>>

\* DELETE /api/chat/:chatId
DeleteChat(chatId) ==
  /\ FindOne(db, chatId, DEMO_USER) # NoId
  /\ db' = [k \in DOMAIN db \ {chatId} |-> db[k]]
  /\ UNCHANGED <<sockets, listeners, rooms, activeConnections, emitted,
                 nextId, ex, faults, page>>

\* What a client can send as the message of a request body
TempMessages == {JUndef, JStr(Blank), JNum(7), JStr(Hi), JStr(Text51)}

\* The server after start: no chat, no request
InitTemp ==
  /\ sockets = [c \in Conns |-> [st |-> "idle", user |-> NoUser,
                                 token |-> NO_TOKEN]]
  /\ listeners = [c \in Conns |-> {}]
  /\ rooms = [c \in Conns |-> {}]
  /\ activeConnections = [u \in Users |-> NoConn]
  /\ emitted = [c \in Conns |-> <<>>]
  /\ db = <<>>
  /\ nextId = 1
  /\ ex = <<>>
  /\ faults = 0
  /\ page = PageInit

NextTemp ==
  \/ \E title \in {JUndef, JStr(Hi)} : PostChat(title)
  \/ \E chatId \in {ObjectIds[k] : k \in 1..MaxChats}, message \in TempMessages :
        PostMessages(chatId, message)
  \/ \E i \in 1..MaxExchanges, r \in UpstreamResults : FetchSettles(i, r)
  \/ \E chatId \in {ObjectIds[k] : k \in 1..MaxChats} : DeleteChat(chatId)

SpecTemp == InitTemp /\ [][NextTemp]_vars

(***************************************************************************)
(* The REST route POST /:chatId/messages of the chat router, next to the   *)
(* socket handler: one request over each, on two stored chats of u1 that   *)
(* hold the same history.                                                  *)
(***************************************************************************)
\* if (!message && (!attachments || attachments.length === 0)): "reject"
\* (status 400) or "pass"; attachments is [] when the body has none
ValidateRest(body) ==
  LET atts == AttachmentsOf(body)
  IN  IF ~Falsy(body.message) THEN "pass"
      ELSE IF Falsy(atts) THEN "reject"
      ELSE IF atts.t = "array" /\ Len(atts.items) = 0 THEN "reject"
      ELSE "pass"

\* A request to the route. status: the HTTP status of the response (0
\* before there is one); warning: the response carries warning
RestRequest(c, body, pc, status) ==
  [conn |-> c, user |-> sockets[c].user, data |-> body, pc |-> pc,
   chat |-> NoDoc, request |-> <<>>, upstream |-> "none",
   reply |-> NoMessage, faulted |-> FALSE, replySave |-> "none",
   tokensBefore |-> 0, status |-> status, warning |-> FALSE]

\* The outer catch of the route: status 500
RestOuterCatch(i, e) == ex' = [e EXCEPT ![i].pc = "done", ![i].status = 500]

\* The route up to await Chat.findOne
RestPostMessages(c, body) ==
  /\ sockets[c].st = "open"
  /\ Len(ex) < MaxExchanges
  /\ IF ValidateRest(body) = "reject"
     THEN ex' = Append(ex, RestRequest(c, body, "done", 400))
     ELSE ex' = Append(ex, RestRequest(c, body, "rest_find", 0))
  /\ UNCHANGED <<sockets, listeners, rooms, activeConnections, emitted, db,
                 nextId, faults, page>>

\* await Chat.findOne returns or throws; on a match the user message is
\* pushed, the request is built and the route suspends at axios.post
RestFindOne(i, ok) ==
  /\ i \in 1..Len(ex)
  /\ ex[i].pc = "rest_find"
  /\ LET data == ex[i].data
         found == FindOne(db, data.chatId, ex[i].user)
         notes == AttachmentNotes(AttachmentsOf(data))
         content == UserContent(data.message, notes.v)
         chat == Push(Hydrate(found, db[found]),
                      Entry("user", content, FALSE, i))
     IN  IF ~ok \/ data.chatId = MALFORMED_ID
         THEN /\ data.chatId # MALFORMED_ID => faults < MaxFaults
              /\ faults' = IF data.chatId = MALFORMED_ID THEN faults
                           ELSE faults + 1
              /\ RestOuterCatch(i, [ex EXCEPT ![i].faulted =
                                                (data.chatId # MALFORMED_ID)])
         ELSE /\ UNCHANGED faults
              /\ IF found = NoId
                 THEN ex' = [ex EXCEPT ![i].pc = "done", ![i].status = 404]
                 ELSE IF ~notes.ok
                         \/ (~Falsy(data.message) /\ data.message.t # "string")
                 THEN RestOuterCatch(i, ex)
                 ELSE ex' = [ex EXCEPT ![i].chat = chat,
                                       ![i].request = MessagesForAI(chat),
                                       ![i].tokensBefore = chat.totalTokens,
                                       ![i].pc = "rest_upstream"]
  /\ UNCHANGED <<sockets, listeners, rooms, activeConnections, emitted, db,
                 nextId, page>>

\* catch (aiError) of the route up to chat.save()
RestCatchAiError(i, e, doc) ==
  LET chat == Push(doc, Entry("assistant", APOLOGY, TRUE, i))
  IN  ex' = [e EXCEPT ![i].chat =
                        [chat EXCEPT !.messageCount = Len(chat.messages)],
                      ![i].pc = "rest_save_apology"]

\* await axios.post returns or throws: the reply is pushed, the statistics
\* and the title are updated; any throw on the way lands in catch (aiError)
RestUpstreamSettles(i, r) ==
  /\ i \in 1..Len(ex)
  /\ ex[i].pc = "rest_upstream"
  /\ LET message == ex[i].data.message
         e == [ex EXCEPT ![i].upstream = r.kind]
         pushed == Push(ex[i].chat, Entry("assistant", r.content, FALSE, i))
         counted == [pushed EXCEPT
                       !.messageCount = Len(pushed.messages),
                       !.totalTokens = @ + r.total_tokens]
         retitle == Len(counted.messages) = 2 /\ counted.title = NEW_CHAT
         titled == [counted EXCEPT !.title = TitleFrom(Trim(message.s)),
                                   !.titleModified = TRUE]
     IN  CASE r.kind # "ok" -> RestCatchAiError(i, e, ex[i].chat)
           [] r.kind = "ok" /\ retitle /\ message.t # "string" ->
                RestCatchAiError(i, e, counted)
           [] OTHER ->
                ex' = [e EXCEPT ![i].chat = IF retitle THEN titled ELSE counted,
                                ![i].reply =
                                   RawMessage("assistant", r.content, FALSE,
                                              "none", r.total_tokens),
                                ![i].pc = "rest_save_reply"]
  /\ UNCHANGED <<sockets, listeners, rooms, activeConnections, emitted, db,
                 nextId, faults, page>>

\* await chat.save() of the success branch returns or throws
RestSaveReply(i, ok) ==
  /\ i \in 1..Len(ex)
  /\ ex[i].pc = "rest_save_reply"
  /\ IF ok /\ SchemaValid(ex[i].chat)
     THEN /\ db' = Written(db, ex[i].chat)
          /\ ex' = [ex EXCEPT ![i].chat = Saved(ex[i].chat), ![i].pc = "done",
                              ![i].replySave = "ok", ![i].status = 200]
          /\ UNCHANGED faults
     ELSE /\ SchemaValid(ex[i].chat) => faults < MaxFaults
          /\ faults' = IF SchemaValid(ex[i].chat) THEN faults + 1 ELSE faults
          /\ RestCatchAiError(i, [ex EXCEPT
                                    ![i].faulted = SchemaValid(ex[i].chat),
                                    ![i].replySave = "failed"],
                              ex[i].chat)
          /\ UNCHANGED db
  /\ UNCHANGED <<sockets, listeners, rooms, activeConnections, emitted,
                 nextId, page>>

\* await chat.save() of catch (aiError) returns or throws
RestSaveApology(i, ok) ==
  /\ i \in 1..Len(ex)
  /\ ex[i].pc = "rest_save_apology"
  /\ IF ok /\ SchemaValid(ex[i].chat)
     THEN /\ db' = Written(db, ex[i].chat)
          /\ ex' = [ex EXCEPT ![i].chat = Saved(ex[i].chat), ![i].pc = "done",
                              ![i].status = 200, ![i].warning = TRUE]
          /\ UNCHANGED faults
     ELSE /\ SchemaValid(ex[i].chat) => faults < MaxFaults
          /\ faults' = IF SchemaValid(ex[i].chat) THEN faults + 1 ELSE faults
          /\ RestOuterCatch(i, [ex EXCEPT
                                  ![i].faulted = @ \/ SchemaValid(ex[i].chat)])
          /\ UNCHANGED db
  /\ UNCHANGED <<sockets, listeners, rooms, activeConnections, emitted,
                 nextId, page>>

\* The chat the socket request names and the chat the REST request names
SocketChat == ObjectIds[1]
RestChat == ObjectIds[2]

\* A stored chat of u1: new, or with one exchange behind it
StoredChats ==
  {[userId |-> "u1", title |-> NEW_CHAT, messages |-> <<>>,
    messageCount |-> 0, totalTokens |-> 0, origin |-> 0],
   [userId |-> "u1", title |-> Hi,
    messages |-> <<Entry("user", Hi, FALSE, 0),
                   Entry("assistant", <<"o", "k">>, FALSE, 0)>>,
    messageCount |-> 2, totalTokens |-> 0, origin |-> 0]}

\* Message texts and attachment lists of a request
RouteBodies ==
  [message : {JUndef, JStr(<<>>), JStr(Blank), JStr(Hi)},
   attachments : {JUndef, JNull, JList(<<>>), JList(<<PhotoPng>>)}]

\* Both chats are stored with the same history; c1 is u1's open socket
InitRoutes ==
  /\ sockets = [c \in Conns |-> [st |-> "open", user |-> UserOf(c),
                                 token |-> "jwt:" \o UserOf(c)]]
  /\ listeners = [c \in Conns |-> HandlerEvents]
  /\ rooms = [c \in Conns |-> {UserRoom(UserOf(c))}]
  /\ activeConnections =
       [u \in Users |-> IF \E c \in Conns : UserOf(c) = u
                        THEN CHOOSE c \in Conns : UserOf(c) = u
                        ELSE NoConn]
  /\ emitted = [c \in Conns |-> <<>>]
  /\ \E stored \in StoredChats :
        db = [id \in {SocketChat, RestChat} |-> stored]
  /\ nextId = 3
  /\ ex = <<>>
  /\ faults = 0
  /\ page = PageInit

NextRoutes ==
  \/ \E b \in RouteBodies :
        /\ \A i \in 1..Len(ex) : ex[i].data.chatId # SocketChat
        /\ ChatMessage("c1", Payload(SocketChat, b.message, b.attachments))
        /\ UNCHANGED page
  \/ \E b \in RouteBodies :
        /\ \A i \in 1..Len(ex) : ex[i].data.chatId # RestChat
        /\ RestPostMessages("c1", Payload(RestChat, b.message, b.attachments))
  \/ \E i \in 1..MaxExchanges, ok \in BOOLEAN : FindChat(i, ok)
  \/ \E i \in 1..MaxExchanges, r \in UpstreamResults : UpstreamSettles(i, r)
  \/ \E i \in 1..MaxExchanges, ok \in BOOLEAN : SaveReply(i, ok)
  \/ \E i \in 1..MaxExchanges, ok \in BOOLEAN : SaveApology(i, ok)
  \/ \E i \in 1..MaxExchanges, ok \in BOOLEAN : RestFindOne(i, ok)
  \/ \E i \in 1..MaxExchanges, r \in UpstreamResults : RestUpstreamSettles(i, r)
  \/ \E i \in 1..MaxExchanges, ok \in BOOLEAN : RestSaveReply(i, ok)
  \/ \E i \in 1..MaxExchanges, ok \in BOOLEAN : RestSaveApology(i, ok)

SpecRoutes == InitRoutes /\ [][NextRoutes]_vars

(***************************************************************************)
(* Properties of the relay.                                                *)
(***************************************************************************)
Exchanges == 1..Len(ex)
Done(i) == ex[i].pc = "done"
\* The handler reached axios.post: validation and chat resolution passed
Dispatched(i) == ex[i].request # <<>>
Terminal(e) == e.ev \in {"ai_response", "error"}
TypingOn(e) == e.ev = "ai_typing" /\ e.typing
TypingOff(e) == e.ev = "ai_typing" /\ ~e.typing
Last(log) == log[Len(log)]
\* The entries of the collection a handler invocation pushed
StoredBy(i) ==
  UNION {{<<id, k>> : k \in {j \in 1..Len(db[id].messages) :
                                db[id].messages[j].by = i}} :
         id \in DOMAIN db}
CreatedBy(i) == {id \in DOMAIN db : db[id].origin = i}

\* C1: every chat_message that passes validation and chat resolution gets
\* exactly one ai_response: never two, and one once the handler has ended,
\* also when the upstream call or a save fails.
C1_ExactlyOneResponse ==
  \A i \in Exchanges :
    Dispatched(i) =>
      /\ Count(EventsOf(i), "ai_response") <= 1
      /\ Done(i) => Count(EventsOf(i), "ai_response") = 1

\* C2: within one exchange message_received comes before ai_typing on,
\* which comes before the terminal event; no terminal event precedes the
\* exchange's message_received or its typing-on.
C2_EventOrder ==
  \A i \in Exchanges :
    LET evs == EventsOf(i)
    IN  \A k \in 1..Len(evs) :
          /\ TypingOn(evs[k]) =>
               \E j \in 1..(k - 1) : evs[j].ev = "message_received"
          /\ (TypingOn(evs[k]) \/ evs[k].ev = "message_received") =>
               \A j \in 1..(k - 1) : ~Terminal(evs[j])
          /\ (Terminal(evs[k]) /\ Dispatched(i)) =>
               \E j \in 1..(k - 1) : TypingOn(evs[j])
          /\ evs[k].ev = "ai_response" =>
               \E j \in 1..(k - 1) : TypingOn(evs[j])

\* An exchange has ended with message_received, typing on, typing off and
\* ai_response.
C2_Witness ==
  \E i \in Exchanges :
    /\ Done(i)
    /\ Len(EventsOf(i)) = 4
    /\ EventsOf(i)[1].ev = "message_received"
    /\ TypingOn(EventsOf(i)[2])
    /\ EventsOf(i)[4].ev = "ai_response"

\* The payload has empty or whitespace-only text and an empty attachment
\* list
EmptyMessage(data) ==
  /\ data.t = "object"
  /\ data.message.t = "string"
  /\ Trim(data.message.s) = <<>>
  /\ AttachmentsOf(data).t = "array"
  /\ Len(AttachmentsOf(data).items) = 0

\* C4: a chat_message with empty or whitespace-only text and no attachment
\* gets one error event and nothing else: no chat is constructed or
\* stored, no entry is stored, no upstream call is made, and none of
\* message_received, ai_typing, ai_response is emitted.
C4_EmptyMessageRejected ==
  \A i \in Exchanges :
    EmptyMessage(ex[i].data) =>
      /\ Done(i)
      /\ Len(EventsOf(i)) = 1
      /\ EventsOf(i)[1].ev = "error"
      /\ ex[i].chat = NoDoc
      /\ ~Dispatched(i)
      /\ ex[i].upstream = "none"
      /\ StoredBy(i) = {}
      /\ CreatedBy(i) = {}

\* A whitespace-only message has been rejected while another exchange has
\* stored a conversation.
C4_Witness ==
  \E i \in Exchanges :
    /\ EmptyMessage(ex[i].data)
    /\ ex[i].data.message.s # <<>>
    /\ Done(i)
    /\ db # <<>>

\* The upstream call of the exchange was rejected, errored or timed out
UpstreamFailed(i) == ex[i].upstream \in {"rejected", "malformed", "timeout"}

\* C5: once on the upstream-failure path the handler completes: the
\* apology is stored and ai_response is the exchange's last event; no such
\* exchange ends with an error event.
C5_FailurePathCompletes ==
  \A i \in Exchanges :
    (UpstreamFailed(i) /\ Done(i)) =>
      /\ Last(EventsOf(i)).ev = "ai_response"
      /\ Count(EventsOf(i), "error") = 0
      /\ \E p \in StoredBy(i) : db[p[1]].messages[p[2]].error = "true"

\* C6: after an upstream timeout the exchange ends with a stored generated
\* entry marked as an error, an entry count equal to the length of the
\* entry list, the token total it started with, and an ai_response that
\* carries the warning.
C6_TimeoutOutcome ==
  \A i \in Exchanges :
    (ex[i].upstream = "timeout" /\ Done(i)) =>
      /\ Last(EventsOf(i)).ev = "ai_response"
      /\ Last(EventsOf(i)).warning
      /\ Last(EventsOf(i)).chat.messageCount = Len(ex[i].chat.messages)
      /\ Last(EventsOf(i)).chat.totalTokens = ex[i].tokensBefore
      /\ \E p \in StoredBy(i) :
            /\ db[p[1]].messages[p[2]].role = "assistant"
            /\ db[p[1]].messages[p[2]].error = "true"

\* C7: when the save that follows a successful upstream call fails, the
\* exchange ends with an error event and is not treated as an upstream
\* failure: typing off is not emitted again and no apology is appended.
C7_SaveFailureIsNotUpstreamFailure ==
  \A i \in Exchanges :
    ex[i].replySave = "failed" =>
      /\ Len(SelectSeq(EventsOf(i), TypingOff)) <= 1
      /\ \A k \in 1..Len(ex[i].chat.messages) :
            ex[i].chat.messages[k].error # "true"
      /\ Done(i) =>
            /\ Last(EventsOf(i)).ev = "error"
            /\ Count(EventsOf(i), "ai_response") = 0

\* The payload is missing, its text is no string, or its attachments are
\* no list
Malformed(data) ==
  \/ data.t # "object"
  \/ data.message.t \notin {"string", "undefined"}
  \/ AttachmentsOf(data).t # "array"

\* C8: a malformed payload, or a storage failure before the upstream call,
\* ends with one error event and no ai_response, and leaves the collection
\* as it was: no chat created, no entry stored.
C8_NoSideEffectBeforeDispatch ==
  \A i \in Exchanges :
    (Done(i) /\ (Malformed(ex[i].data) \/ (ex[i].faulted /\ ~Dispatched(i)))) =>
      /\ Len(EventsOf(i)) = 1
      /\ EventsOf(i)[1].ev = "error"
      /\ StoredBy(i) = {}
      /\ CreatedBy(i) = {}

\* The exchange names a stored chat of another user
NamesForeignChat(i) ==
  /\ Validate(ex[i].data) = "pass"
  /\ ex[i].data.chatId \in DOMAIN db
  /\ db[ex[i].data.chatId].userId # ex[i].user

\* C9: a chat_message naming another user's chat is rejected as a missing
\* chat is (one error event, nothing else); every stored entry was pushed
\* by an exchange of the chat's owner, and every upstream request is built
\* from a chat of the requesting user holding only that user's exchanges.
C9_OwnerOnly ==
  /\ \A id \in DOMAIN db : \A k \in 1..Len(db[id].messages) :
        ex[db[id].messages[k].by].user = db[id].userId
  /\ \A i \in Exchanges :
        Dispatched(i) =>
          /\ ex[i].chat.userId = ex[i].user
          /\ \A k \in 1..Len(ex[i].chat.messages) :
                ex[ex[i].chat.messages[k].by].user = ex[i].user
  /\ \A i \in Exchanges :
        (NamesForeignChat(i) /\ Done(i)) =>
          /\ ~Dispatched(i)
          /\ Len(EventsOf(i)) = 1
          /\ EventsOf(i)[1].ev = "error"
          /\ EventsOf(i)[1].text \in {"Chat not found", "Invalid chat ID"}

\* A user has named a chat of another user that holds a full exchange, and
\* has been answered "Chat not found".
C9_Witness ==
  \E i \in Exchanges :
    /\ NamesForeignChat(i)
    /\ Done(i)
    /\ Len(db[ex[i].data.chatId].messages) = 2
    /\ EventsOf(i)[1].text = "Chat not found"

\* The entries the chat of exchange i held when the request was assembled:
\* those up to the user entry the exchange pushed
AtAssembly(i) ==
  LET msgs == ex[i].chat.messages
      k == CHOOSE j \in 1..Len(msgs) : msgs[j].by = i /\ msgs[j].role = "user"
  IN  [j \in 1..k |-> [role |-> msgs[j].role, content |-> msgs[j].content]]

\* C13: the list sent upstream starts with the system element exactly
\* when the chat held one entry at assembly; otherwise it is the chat's
\* entries in order as {role, content} pairs with nothing prepended.
C13_SystemPromptByCount ==
  \A i \in Exchanges :
    Dispatched(i) =>
      ex[i].request =
        IF Len(AtAssembly(i)) = 1
        THEN <<[role |-> "system", content |-> SYSTEM_PROMPT]>>
               \o AtAssembly(i)
        ELSE AtAssembly(i)

\* One request went out with the system element, and another went out
\* without it from a chat that still has its placeholder title.
C13_Witness ==
  /\ \E i \in Exchanges : Dispatched(i) /\ ex[i].request[1].role = "system"
  /\ \E i \in Exchanges :
        /\ Dispatched(i)
        /\ ex[i].request[1].role = "user"
        /\ Len(ex[i].request) = 3
        /\ ex[i].chat.title = NEW_CHAT

\* C14: the stored title of a chat is rewritten at most once, on the way
\* to its second entry: no step that stores a third or later entry of a
\* chat changes the chat's title.
C14_TitleRewrittenOnce ==
  [][\A id \in DOMAIN db :
       db'[id].title # db[id].title => Len(db[id].messages) < 2]_vars

\* C15: once a stored chat holds two entries, a user entry and a
\* generated one (a reply or the apology), its title is no longer the
\* placeholder: it was rewritten when the second entry was stored.
C15_TitleRewrittenAtTwoEntries ==
  \A id \in DOMAIN db :
    (/\ Len(db[id].messages) >= 2
     /\ db[id].messages[1].role = "user"
     /\ db[id].messages[2].role = "assistant") => db[id].title # NEW_CHAT

\* C16: a rewritten title is computed from the trimmed content T of the
\* chat's first user entry as stored, attachment blocks included: T itself
\* when T has at most 50 characters, else the first 47 characters of T and
\* the ellipsis; it never exceeds 50 characters.
C16_TitleFromFirstEntry ==
  \A id \in DOMAIN db :
    db[id].title # NEW_CHAT =>
      LET T == Trim(db[id].messages[1].content)
      IN  /\ db[id].messages[1].role = "user"
          /\ Len(db[id].title) <= TitleLimit
          /\ db[id].title = IF Len(T) <= TitleLimit THEN T
                            ELSE SubSeq(T, 1, TitleKeep) \o ELLIPSIS

\* C17: after a success settlement the chat's token total, as saved and
\* as reported in the ai_response, is its value before the exchange plus
\* the total_tokens the upstream call returned.
C17_TokensAccumulate ==
  \A i \in Exchanges :
    ex[i].replySave = "ok" =>
      /\ ex[i].chat.totalTokens = ex[i].tokensBefore + ex[i].reply.usage
      /\ Last(EventsOf(i)).chat.totalTokens =
            ex[i].tokensBefore + ex[i].reply.usage

\* C18: in every state of the collection each stored chat's
\* statistics.messageCount equals the length of its stored messages.
C18_CountMatchesEntries ==
  \A id \in DOMAIN db : db[id].messageCount = Len(db[id].messages)

\* The ai_response events emitted so far
\* The user entry exchange i pushed (line 276), as its handler holds it
UserEntry(i) ==
  LET msgs == ex[i].chat.messages
  IN  msgs[CHOOSE j \in 1..Len(msgs) : msgs[j].by = i /\ msgs[j].role = "user"]

\* The handler of exchange i has pushed its user entry
Accepted(i) ==
  \E j \in 1..Len(ex[i].chat.messages) :
    ex[i].chat.messages[j].by = i /\ ex[i].chat.messages[j].role = "user"

\* The trimmed text of a payload; absent text is empty
TextOf(data) == IF data.message.t = "string" THEN Trim(data.message.s) ELSE <<>>

\* "\n[Attachment: <filename>]"
Tag(a) == ATTACHMENT_OPEN \o a.filename.s \o ATTACHMENT_CLOSE

RECURSIVE BlocksAppended(_)
\* Every attachment's block one after the other, nothing between them; the
\* excerpt follows when it is not null
BlocksAppended(items) ==
  IF items = <<>> THEN <<>>
  ELSE Tag(items[1])
       \o (IF items[1].textExcerpt.t = "null" THEN <<>>
           ELSE <<"\n">> \o items[1].textExcerpt.s)
       \o BlocksAppended(Tail(items))

RECURSIVE BlocksJoined(_)
\* Every attachment's block with one more newline between consecutive
\* blocks; the excerpt follows when it is not empty
BlocksJoined(items) ==
  IF items = <<>> THEN <<>>
  ELSE Tag(items[1])
       \o (IF items[1].textExcerpt.t = "null" \/ items[1].textExcerpt.s = <<>>
           THEN <<>> ELSE <<"\n">> \o items[1].textExcerpt.s)
       \o (IF Len(items) = 1 THEN <<>>
           ELSE <<"\n">> \o BlocksJoined(Tail(items)))

\* C19 as stated: the stored user content is the trimmed text followed by
\* each attachment's block in order, with nothing inserted between or
\* around the blocks, for any number of attachments and for empty text.
C19_BlocksAppended ==
  \A i \in Exchanges :
    Accepted(i) =>
      UserEntry(i).content =
        TextOf(ex[i].data) \o BlocksAppended(AttachmentsOf(ex[i].data).items)

\* C19: the stored user content is the trimmed text followed by the
\* attachment blocks, consecutive blocks separated by one more newline,
\* the whole trimmed once more; the placeholder when that is empty.
C19_BlocksJoinedAndTrimmed ==
  \A i \in Exchanges :
    Accepted(i) =>
      LET whole == Trim(TextOf(ex[i].data)
                        \o BlocksJoined(AttachmentsOf(ex[i].data).items))
      IN  UserEntry(i).content =
            IF whole = <<>> THEN NO_TEXT_PLACEHOLDER ELSE whole

\* Two exchanges have stored their user entries: one with text and two
\* attachments, one with empty text and one attachment
C19_Witness ==
  \E i, j \in Exchanges :
    /\ Accepted(i) /\ Accepted(j)
    /\ TextOf(ex[i].data) # <<>>
    /\ Len(AttachmentsOf(ex[i].data).items) = 2
    /\ TextOf(ex[j].data) = <<>>
    /\ Len(AttachmentsOf(ex[j].data).items) = 1

\* Empty or absent text with at least one attachment
AttachmentOnly(data) ==
  /\ data.t = "object"
  /\ data.message.t \in {"string", "undefined"}
  /\ TextOf(data) = <<>>
  /\ AttachmentsOf(data).t = "array"
  /\ Len(AttachmentsOf(data).items) >= 1

\* The reply entries handler invocation i pushed after a 2xx answer
Replies(i) ==
  {k \in 1..Len(ex[i].chat.messages) :
     /\ ex[i].chat.messages[k].by = i
     /\ ex[i].chat.messages[k].role = "assistant"
     /\ ex[i].chat.messages[k].error = "null"}

\* The entries of a stored chat that handler invocation i pushed, in order
StoredOf(i, id) == SelectSeq(db[id].messages, LAMBDA m : m.by = i)

\* C20: an attachment-only first message of a conversation whose upstream
\* call answers with text, and with no storage failure, settles on the
\* success path: no error event, a terminal ai_response with the upstream
\* text and no failure marker, and exactly the non-empty user entry and
\* the reply stored.
C20_AttachmentOnlySucceeds ==
  \A i \in Exchanges :
    (/\ Done(i)
     /\ AttachmentOnly(ex[i].data)
     /\ ex[i].data.chatId = DEFAULT_CHAT_ID
     /\ ex[i].upstream = "ok"
     /\ ~ex[i].faulted
     /\ \E k \in Replies(i) : ex[i].chat.messages[k].content # <<>>) =>
      LET text == ex[i].chat.messages[CHOOSE k \in Replies(i) : TRUE].content
          stored == StoredOf(i, ex[i].chat.id)
      IN  /\ Count(EventsOf(i), "error") = 0
          /\ Last(EventsOf(i)).ev = "ai_response"
          /\ ~Last(EventsOf(i)).warning
          /\ Last(EventsOf(i)).message.content = text
          /\ Len(stored) = 2
          /\ stored[1].role = "user" /\ stored[1].content # <<>>
          /\ stored[2].role = "assistant" /\ stored[2].content = text
          /\ stored[2].error = "null"

Responses ==
  UNION {{emitted[c][k] : k \in {j \in 1..Len(emitted[c]) :
                                   emitted[c][j].ev = "ai_response"}} :
         c \in Conns}

\* C12: every ai_response, success-shaped or failure-shaped, carries the
\* stored id of the chat its exchange worked on, as chatId and as chat.id;
\* the sentinel "default" never appears in it.
C12_ResponseCarriesStoredId ==
  \A e \in Responses :
    /\ e.chatId = e.chat.id
    /\ e.chatId # DEFAULT_CHAT_ID
    /\ e.chatId \in DOMAIN db
    /\ e.chatId = ex[e.ex].chat.id

\* Requests that used the sentinel have been answered in both shapes.
C12_Witness ==
  /\ \E e \in Responses :
        ex[e.ex].data.chatId = DEFAULT_CHAT_ID /\ ~e.warning
  /\ \E e \in Responses :
        ex[e.ex].data.chatId = DEFAULT_CHAT_ID /\ e.warning

\* The apology entries of the collection handler invocation i pushed
Apologies(i) ==
  {db[p[1]].messages[p[2]] : p \in {q \in StoredBy(i) :
                                      db[q[1]].messages[q[2]].error # "null"}}

\* What an ai_response and a stored entry say about why the call failed
ReasonOf(e) == <<e.message.error, e.message.errorType, e.warning>>
KindOf(m) == m.error

\* C21: a failure by the 2-minute timeout is recorded with a reason that
\* differs from the reason recorded for a rejection or a transport error,
\* in the stored generated entry and in the terminal event.
C21_TimeoutReasonDistinct ==
  \A i, j \in Exchanges :
    (/\ Done(i) /\ Done(j)
     /\ ex[i].upstream = "timeout" /\ ex[j].upstream = "rejected"
     /\ Last(EventsOf(i)).ev = "ai_response"
     /\ Last(EventsOf(j)).ev = "ai_response") =>
      /\ ReasonOf(Last(EventsOf(i))) # ReasonOf(Last(EventsOf(j)))
      /\ \A m \in Apologies(i), n \in Apologies(j) : KindOf(m) # KindOf(n)

\* The step a suspended handler invocation takes when what it awaits
\* returns: the upstream call with any result, a storage call with success
Resumes(i) ==
  CASE ex[i].pc = "create" -> ENABLED CreateChat(i, TRUE)
    [] ex[i].pc = "find" -> ENABLED FindChat(i, TRUE)
    [] ex[i].pc = "upstream" ->
         \A r \in UpstreamResults : ENABLED UpstreamSettles(i, r)
    [] ex[i].pc = "save_reply" -> ENABLED SaveReply(i, TRUE)
    [] ex[i].pc = "save_apology" -> ENABLED SaveApology(i, TRUE)
    [] OTHER -> TRUE

\* The positions of the terminal events of handler invocation i in the log
\* of its connection
TerminalAt(i) ==
  {k \in 1..Len(emitted[ex[i].conn]) :
     emitted[ex[i].conn][k].ex = i /\ Terminal(emitted[ex[i].conn][k])}

\* C23: two chat messages sent on one connection run as independent
\* exchanges: each can always take its next step whatever the other has
\* done, and each ends with exactly one terminal event of its own, its
\* last event, in whichever order the two settle.
C23_ExchangesIndependent ==
  \A i, j \in Exchanges :
    (i # j /\ ex[i].conn = ex[j].conn) =>
      /\ Resumes(i)
      /\ Cardinality(TerminalAt(i)) <= 1
      /\ Done(i) => /\ Cardinality(TerminalAt(i)) = 1
                    /\ Terminal(Last(EventsOf(i)))

\* Two exchanges of one connection have settled in the reverse order of
\* their sending: the second was sent and answered while the first waited
C23_Witness ==
  \E i, j \in Exchanges :
    /\ i < j /\ ex[i].conn = ex[j].conn
    /\ Done(i) /\ Done(j)
    /\ Last(EventsOf(i)).ev = "ai_response"
    /\ Last(EventsOf(j)).ev = "ai_response"
    /\ \A a \in TerminalAt(i), b \in TerminalAt(j) : b < a

\* Handler invocations i and j worked on the same chat, each on a copy
\* that holds no entry of the other, and both saved; j saved last
Overlapped(i, j) ==
  /\ i # j /\ Done(i) /\ Done(j)
  /\ ex[i].conn = ex[j].conn
  /\ ex[i].chat.id = ex[j].chat.id /\ ex[i].chat.id \in DOMAIN db
  /\ Last(EventsOf(i)).ev = "ai_response"
  /\ Last(EventsOf(j)).ev = "ai_response"
  /\ \A k \in 1..Len(ex[i].chat.messages) : ex[i].chat.messages[k].by # j
  /\ \A k \in 1..Len(ex[j].chat.messages) : ex[j].chat.messages[k].by # i
  /\ \A a \in TerminalAt(i), b \in TerminalAt(j) : a < b

\* C24: when two exchanges on one conversation overlap, the persisted
\* conversation after both have settled is the copy written last: its
\* entry list, its statistics and its title are those of that exchange.
C24_LastWriteWins ==
  \A i, j \in Exchanges :
    Overlapped(i, j) =>
      /\ db[ex[j].chat.id].messages = ex[j].chat.messages
      /\ db[ex[j].chat.id].messageCount = ex[j].chat.messageCount
      /\ db[ex[j].chat.id].totalTokens = ex[j].chat.totalTokens
      /\ db[ex[j].chat.id].title = ex[j].chat.title

\* C25: in the temporary server, once every POST .../messages request has
\* been answered, with success or with failure, every stored chat has
\* statistics.messageCount equal to the length of its message list.
C25_TempCountMatchesEntries ==
  (ex # <<>> /\ \A i \in Exchanges : ex[i].pc = "done" /\ ex[i].status # 0) =>
    \A id \in DOMAIN db : db[id].messageCount = Len(db[id].messages)

\* What a stored chat holds, without the history fields
Content(rec) ==
  [title |-> rec.title, messageCount |-> rec.messageCount,
   totalTokens |-> rec.totalTokens,
   messages |-> [k \in 1..Len(rec.messages) |->
                   [role |-> rec.messages[k].role,
                    content |-> rec.messages[k].content,
                    error |-> rec.messages[k].error,
                    tokens |-> rec.messages[k].tokens]]]

\* The text the upstream call of handler invocation i answered with
UpstreamText(i) ==
  IF Replies(i) = {} THEN <<>>
  ELSE ex[i].chat.messages[CHOOSE k \in Replies(i) : TRUE].content

\* i is a socket exchange and j a REST request with the same text and
\* attachments, both have ended, their upstream calls, if both made one,
\* ended alike, and no storage operation failed
SameRequest(i, j) ==
  /\ ex[i].data.chatId = SocketChat /\ ex[j].data.chatId = RestChat
  /\ ex[i].data.message = ex[j].data.message
  /\ ex[i].data.attachments = ex[j].data.attachments
  /\ Done(i) /\ Done(j)
  /\ ~ex[i].faulted /\ ~ex[j].faulted
  /\ (Dispatched(i) /\ Dispatched(j)) =>
        /\ ex[i].upstream = ex[j].upstream
        /\ UpstreamText(i) = UpstreamText(j)

\* C26: for an existing conversation of the caller and any text and
\* attachment list, the REST route and the socket handler make the same
\* accept/reject decision and, when they accept, store the same user
\* entry and generated entry, the same title and the same statistics.
C26_RoutesAgree ==
  \A i, j \in Exchanges :
    SameRequest(i, j) =>
      /\ Accepted(i) <=> Accepted(j)
      /\ Content(db[SocketChat]) = Content(db[RestChat])

\* The positions in the events of handler invocation i that satisfy P
Positions(i, P(_)) == {k \in 1..Len(EventsOf(i)) : P(EventsOf(i)[k])}

\* C27: an exchange that emitted ai_typing on emits ai_typing off exactly
\* once, after the typing-on and before its terminal event; it never emits
\* typing-off twice and never ends with typing-on as its last typing event.
C27_TypingOffOnce ==
  \A i \in Exchanges :
    Positions(i, TypingOn) # {} =>
      /\ Cardinality(Positions(i, TypingOff)) <= 1
      /\ \A on \in Positions(i, TypingOn), off \in Positions(i, TypingOff) :
           on < off
      /\ Done(i) =>
           /\ Cardinality(Positions(i, TypingOff)) = 1
           /\ \A off \in Positions(i, TypingOff), t \in Positions(i, Terminal) :
                off < t

(***************************************************************************)
(* Properties of the chat page.                                            *)
(***************************************************************************)
\* The timer of send k has fired and the event the page gets in this step
\* is the ai_response of the exchange send k sent
LateReply(k) ==
  /\ page.sends[k].timer = "fired"
  /\ page.delivered < Len(emitted[PageConn])
  /\ page'.delivered = page.delivered + 1
  /\ emitted[PageConn][page.delivered + 1].ev = "ai_response"
  /\ emitted[PageConn][page.delivered + 1].ex = page.sends[k].ex

\* C3: settlement is idempotent: when the timer of an exchange has fired
\* and its ai_response arrives afterwards, the ai_response is a no-op: no
\* message is appended and the loading and typing flags stay as they are.
C3_SettlementIdempotent ==
  [][\A k \in 1..Len(page.sends) :
       LateReply(k) => /\ page'.messages = page.messages
                       /\ page'.isLoading = page.isLoading
                       /\ page'.isTyping = page.isTyping]_vars

\* Send k has settled: by ai_response, by an error event or by its timer
Settled(k) == page.sends[k].responseReceived

\* The page's messages of a kind that exchange i caused
Shown(kind, i) ==
  {j \in 1..Len(page.messages) :
     page.messages[j].kind = kind /\ page.messages[j].cause = i}

\* C29: once a send has settled, none of the three listeners registered
\* for it is still registered, and one error event appends at most one
\* message to the page.
C29_ListenersRemovedOnSettle ==
  /\ \A k \in 1..Len(page.sends) : Settled(k) => page.sends[k].on = {}
  /\ \A i \in Exchanges : Cardinality(Shown("error", i)) <= 1

\* The messages the page appends in this step
Appended ==
  {page'.messages[j] : j \in (Len(page.messages) + 1)..Len(page'.messages)}

\* The event the page gets in this step is the ai_response of exchange i
ReplyArrives(i) ==
  /\ page.delivered < Len(emitted[PageConn])
  /\ page'.delivered = page.delivered + 1
  /\ emitted[PageConn][page.delivered + 1].ev = "ai_response"
  /\ emitted[PageConn][page.delivered + 1].ex = i

\* C30: every ai_response is shown as the reply to the message that caused
\* it: what the page appends when the ai_response of an exchange arrives
\* is appended by the send of that exchange, never by a later send, and a
\* send whose own timer has not fired gets its own reply displayed.
C30_ReplyShownForItsMessage ==
  [][\A i \in Exchanges :
       ReplyArrives(i) =>
         /\ \A m \in Appended : page.sends[m.via].ex = i
         /\ \A k \in 1..Len(page.sends) :
              (page.sends[k].ex = i /\ page.sends[k].timer # "fired") =>
                \E m \in Appended : m.kind = "reply" /\ m.cause = i]_vars

(***************************************************************************)
(* Properties of connecting.                                               *)
(***************************************************************************)
\* C11: a connection whose token resolves to no user or to a deactivated
\* user is rejected at connection time: the user attached to a socket the
\* middleware let through, and every user of the registry, is active, and
\* the token such a socket presented is one the REST middleware accepts.
C11_OnlyActiveUsersConnect ==
  /\ \A c \in Conns :
        sockets[c].user # NoUser =>
          /\ sockets[c].user \in Users \ Deactivated
          /\ AuthenticateToken(sockets[c].token) = sockets[c].user
  /\ \A u \in Users : activeConnections[u] # NoConn => u \notin Deactivated

\* C10: a connection that presents no token is rejected: it never opens,
\* is never in the registry, never gets the connected event, has no
\* handler registered and none of its events is handled.
C10_NoTokenRejected ==
  \A c \in Conns :
    (sockets[c].st # "idle" /\ sockets[c].token = NO_TOKEN) =>
      /\ sockets[c].st \in {"refused", "accepted", "closed"}
      /\ sockets[c].user = NoUser
      /\ \A u \in Users : activeConnections[u] # c
      /\ Count(emitted[c], "connected") = 0
      /\ Count(emitted[c], "pong") = 0
      /\ listeners[c] = {}
      /\ rooms[c] = {}
      /\ \A i \in Exchanges : ex[i].conn # c

\* One connection without a token has been refused by the middleware and
\* another has been closed by handleSocketConnection, while a user's
\* connection is in the registry.
C10_Witness ==
  /\ \E c \in Conns : sockets[c].token = NO_TOKEN /\ sockets[c].st = "refused"
  /\ \E u \in Users : activeConnections[u] # NoConn

\* C22: once a connection's disconnect has been processed it is a member
\* of no chat room and of no user room, whatever it joined and left before,
\* and no room broadcast is delivered to it afterwards.
C22_NoRoomAfterDisconnect ==
  [][\A c \in Conns :
       sockets'[c].st = "closed" =>
         /\ \A room \in rooms'[c] : room.kind \notin {"chat", "user"}
         /\ sockets[c].st = "closed" =>
              Count(emitted'[c], "user_typing") = Count(emitted[c], "user_typing")]_vars

\* A connection of a user has been closed after it got a broadcast of a
\* chat room it had joined, while the other connection is still in a room
C22_Witness ==
  \E c, d \in Conns :
    /\ sockets[c].st = "closed" /\ sockets[c].user # NoUser
    /\ Count(emitted[c], "user_typing") = 1
    /\ sockets[d].st = "open" /\ rooms[d] # {}

\* The live authenticated connections of user u
LiveConnections(u) ==
  {c \in Conns : sockets[c].st = "open" /\ sockets[c].user = u}

\* C28: after any sequence of connects and disconnects, also when a user
\* holds two connections at once, every user with a live connection has a
\* registry entry that names a live connection of that user, and
\* getActiveConnectionsCount is the number of users with a live connection.
C28_RegistryMatchesLiveConnections ==
  /\ \A u \in Users :
       LiveConnections(u) # {} => getUserConnection(u) \in LiveConnections(u)
  /\ getActiveConnectionsCount =
       Cardinality({u \in Users : LiveConnections(u) # {}})

====
